---- MODULE Spec2Model ----
(*************************************************************************)
(* The rock-paper-scissors offer book of lib/rps.py: admission (parse,   *)
(* validate), the matching engine (match), settlement                    *)
(* (update_rps_match_status, cancel_rps) and the per-block expiration    *)
(* pass (expire).  Every handler is one operator over a database record  *)
(* holding the tables the handler reads and writes; the actions apply a  *)
(* whole handler to the current database.                                *)
(*************************************************************************)
EXTENDS Integers, Sequences, FiniteSets, TLC

VARIABLES
    height,                 \* block index of the block being processed
    rps,                    \* table rps, in tx_index order
    rps_matches,            \* table rps_matches, in insertion order
    rps_expirations,        \* table rps_expirations
    rps_match_expirations,  \* table rps_match_expirations
    balances,               \* table balances (asset XCP): address -> quantity
    credits,                \* table credits of the ledger
    debits,                 \* table debits of the ledger
    refused,                \* the ledger answered insufficient_funds to a debit
    aborted,                \* a handler ended in an uncaught exception
    last_call,              \* the handler that produced this state, with its arguments
    match_calls             \* the calls of match() made by that handler

vars == <<height, rps, rps_matches, rps_expirations, rps_match_expirations,
          balances, credits, debits, refused, aborted, last_call, match_calls>>

-----------------------------------------------------------------------------
(* Bounds of the model. *)

FirstHeight == 100
MaxTicks == 24
AdmitSpan == 2
MaxOffers == 3
InitBalance == 3

(* Program constants. *)

LENGTH == 2 + 8 + 32 + 4

\* config.MAX_EXPIRATION is a configured value; the model picks one that lets an
\* offer outlive the 20-block window of a match formed in the admission span.
MAX_EXPIRATION == 23

Addresses == {"X", "Y"}

\* "Z" has no row in the balances table.
AllAddresses == Addresses \cup {"Z"}

-----------------------------------------------------------------------------
(* Sequences and sets. *)

Min(S) == CHOOSE x \in S : \A y \in S : x <= y

RECURSIVE SortedSeq(_)
SortedSeq(S) == IF S = {} THEN <<>> ELSE <<Min(S)>> \o SortedSeq(S \ {Min(S)})

RECURSIVE Orders(_)
Orders(S) ==
    IF S = {} THEN {<<>>}
    ELSE UNION {{<<x>> \o s : s \in Orders(S \ {x})} : x \in S}

Reverse(s) == [i \in 1..Len(s) |-> s[Len(s) + 1 - i]]

-----------------------------------------------------------------------------
(* Byte strings: a value and its length.  hexlify doubles the length,       *)
(* unhexlify halves it and fails on an odd number of digits.                *)

Bytes(n, v) == [len |-> n, val |-> v]

hexlify(b) == [len |-> 2 * b.len, val |-> b.val]

unhexlify_ok(h) == h.len % 2 = 0

unhexlify(h) == [len |-> h.len \div 2, val |-> h.val]

-----------------------------------------------------------------------------
(* The ledger (util.debit, util.credit): every applied call is a row of the *)
(* credits or debits table; a call that repeats a row already applied       *)
(* (account, amount, reason and event id) is a replay and changes nothing;  *)
(* a debit above the balance is refused and changes nothing.                *)

LedgerRow(address, quantity, action, event) ==
    [address |-> address, quantity |-> quantity, action |-> action, event |-> event]

BalanceRows(db, address) == IF address \in DOMAIN db.balances THEN {db.balances[address]} ELSE {}

SetBalance(bal, address, quantity) ==
    [a \in DOMAIN bal \cup {address} |-> IF a = address THEN quantity ELSE bal[a]]

credit(db, address, quantity, action, event) ==
    LET row == LedgerRow(address, quantity, action, event)
        old == IF address \in DOMAIN db.balances THEN db.balances[address] ELSE 0
    IN  IF row \in db.credits THEN db
        ELSE [db EXCEPT !.balances = SetBalance(@, address, old + quantity),
                        !.credits = @ \cup {row}]

debit(db, address, quantity, action, event) ==
    LET row == LedgerRow(address, quantity, action, event)
        old == IF address \in DOMAIN db.balances THEN db.balances[address] ELSE 0
    IN  IF row \in db.debits THEN db
        ELSE IF old < quantity THEN [db EXCEPT !.refused = TRUE]
        ELSE [db EXCEPT !.balances = SetBalance(@, address, old - quantity),
                        !.debits = @ \cup {row}]

-----------------------------------------------------------------------------
(* Statuses. *)

MatchPending == {"pending", "pending and resolved", "resolved and pending"}

MatchConcluded ==
    {"concluded: first player wins", "concluded: second player wins", "concluded: tie"}

MatchTerminal == MatchConcluded \cup {"expired"}

startswith_concluded(status) == status \in MatchConcluded

-----------------------------------------------------------------------------
(* cancel_rps: set the offer's status and recredit its wager. *)

SetRpsStatus(table, tx_index, status) ==
    [i \in 1..Len(table) |->
        IF table[i].tx_index = tx_index THEN [table[i] EXCEPT !.status = status]
        ELSE table[i]]

SetRpsStatusByHash(table, tx_hash, status) ==
    [i \in 1..Len(table) |->
        IF table[i].tx_hash = tx_hash THEN [table[i] EXCEPT !.status = status]
        ELSE table[i]]

\* Mutant: the offer is cancelled and its wager is not recredited.
cancel_rps_no_recredit(db, row, status, block_index) ==
    [db EXCEPT !.rps = SetRpsStatusByHash(@, row.tx_hash, status)]

cancel_rps(db, row, status, block_index) ==
    credit([db EXCEPT !.rps = SetRpsStatusByHash(@, row.tx_hash, status)],
           row.source, row.wager, "recredit wager", row.tx_hash)

-----------------------------------------------------------------------------
(* update_rps_match_status: settle, then store the status. *)

SetMatchStatus(table, id, status) ==
    [k \in 1..Len(table) |->
        IF table[k].id = id THEN [table[k] EXCEPT !.status = status] ELSE table[k]]

\* Mutant: the winner of a decided match is the other side.
SettleCredits_other_side(db, rps_match, status) ==
    IF status \in {"expired", "concluded: tie"}
    THEN credit(credit(db, rps_match.tx0_address, rps_match.wager,
                       "recredit wager", rps_match.id),
                rps_match.tx1_address, rps_match.wager, "recredit wager", rps_match.id)
    ELSE IF startswith_concluded(status)
    THEN LET winner == IF status = "concluded: first player wins"
                       THEN rps_match.tx1_address ELSE rps_match.tx0_address
         IN  credit(db, winner, 2 * rps_match.wager, "wins", rps_match.id)
    ELSE db

\* Mutant: the second test is an if, not an elif, so a tie also pays a winner.
SettleCredits_fall_through(db, rps_match, status) ==
    LET recredited ==
            IF status \in {"expired", "concluded: tie"}
            THEN credit(credit(db, rps_match.tx0_address, rps_match.wager,
                               "recredit wager", rps_match.id),
                        rps_match.tx1_address, rps_match.wager, "recredit wager",
                        rps_match.id)
            ELSE db
    IN  IF startswith_concluded(status)
        THEN LET winner == IF status = "concluded: first player wins"
                           THEN rps_match.tx0_address ELSE rps_match.tx1_address
             IN  credit(recredited, winner, 2 * rps_match.wager, "wins", rps_match.id)
        ELSE recredited

SettleCredits(db, rps_match, status) ==
    IF status \in {"expired", "concluded: tie"}
    THEN credit(credit(db, rps_match.tx0_address, rps_match.wager,
                       "recredit wager", rps_match.id),
                rps_match.tx1_address, rps_match.wager, "recredit wager", rps_match.id)
    ELSE IF startswith_concluded(status)
    THEN LET winner == IF status = "concluded: first player wins"
                       THEN rps_match.tx0_address ELSE rps_match.tx1_address
         IN  credit(db, winner, 2 * rps_match.wager, "wins", rps_match.id)
    ELSE db

update_rps_match_status(db, rps_match, status, block_index) ==
    LET paid == SettleCredits(db, rps_match, status)
    IN  [paid EXCEPT !.rps_matches = SetMatchStatus(@, rps_match.id, status)]

-----------------------------------------------------------------------------
(* validate: the list of problems of an offer, as a set.  The three fields   *)
(* are integers (parse takes them from struct.unpack), so the isinstance     *)
(* tests pass; an odd number of hex digits is the one early return left.     *)

validate(possible_moves, wager, move_random_hash, expiration) ==
    IF ~unhexlify_ok(move_random_hash)
    THEN {"move_random_hash must be an hexadecimal string"}
    ELSE
      (IF possible_moves < 3 THEN {"possible moves must be at least 3"} ELSE {})
      \cup (IF possible_moves % 2 = 0 THEN {"possible moves must be odd"} ELSE {})
      \cup (IF wager <= 0 THEN {"non-positive wager"} ELSE {})
      \cup (IF expiration <= 0 THEN {"non-positive expiration"} ELSE {})
      \cup (IF expiration > MAX_EXPIRATION THEN {"expiration overflow"} ELSE {})
      \cup (IF unhexlify(move_random_hash).len # 32
            THEN {"move_random_hash must be 32 bytes in hexadecimal format"} ELSE {})

-----------------------------------------------------------------------------
(* match: pair the open offer tx_index with the oldest compatible open      *)
(* offer it was not matched with before.                                    *)

\* Mutant: the earlier counterparties are not collected.
already_matched_empty(db, tx1) == {}

already_matched(db, tx1) ==
    {(IF tx1.tx_hash = m.tx0_hash THEN m.tx1_hash ELSE m.tx0_hash) :
        m \in {db.rps_matches[k] : k \in {k \in 1..Len(db.rps_matches) :
                  \/ db.rps_matches[k].tx0_hash = tx1.tx_hash
                  \/ db.rps_matches[k].tx1_hash = tx1.tx_hash}}}

\* Mutant: the SELECT does not ask for status = 'open' but for any offer that
\* is not in a match.
Candidates_unmatched(db, tx1) ==
    {j \in 1..Len(db.rps) :
        /\ db.rps[j].possible_moves = tx1.possible_moves
        /\ db.rps[j].status # "matched"
        /\ db.rps[j].wager = tx1.wager
        /\ db.rps[j].source # tx1.source
        /\ db.rps[j].tx_hash \notin already_matched(db, tx1)}

\* Mutant: the SELECT does not look at the status.
Candidates_any_status(db, tx1) ==
    {j \in 1..Len(db.rps) :
        /\ db.rps[j].possible_moves = tx1.possible_moves
        /\ db.rps[j].wager = tx1.wager
        /\ db.rps[j].source # tx1.source
        /\ db.rps[j].tx_hash \notin already_matched(db, tx1)}

Candidates(db, tx1) ==
    {j \in 1..Len(db.rps) :
        /\ db.rps[j].possible_moves = tx1.possible_moves
        /\ db.rps[j].status = "open"
        /\ db.rps[j].wager = tx1.wager
        /\ db.rps[j].source # tx1.source
        /\ db.rps[j].tx_hash \notin already_matched(db, tx1)}

\* Mutant: ORDER BY tx_index DESC.
FirstByTxIndex_newest(db, rows) ==
    CHOOSE j \in rows : \A i \in rows : db.rps[j].tx_index >= db.rps[i].tx_index

\* ORDER BY tx_index LIMIT 1
FirstByTxIndex(db, rows) ==
    CHOOSE j \in rows : \A i \in rows : db.rps[j].tx_index <= db.rps[i].tx_index

\* Mutant: the window runs from the block of the triggering offer.
NewMatch_from_origin(tx0, tx1, block_index) ==
    [id |-> tx0.tx_hash \o tx1.tx_hash,
     tx0_index |-> tx0.tx_index, tx0_hash |-> tx0.tx_hash, tx0_address |-> tx0.source,
     tx1_index |-> tx1.tx_index, tx1_hash |-> tx1.tx_hash, tx1_address |-> tx1.source,
     tx0_move_random_hash |-> tx0.move_random_hash,
     tx1_move_random_hash |-> tx1.move_random_hash,
     wager |-> tx1.wager, possible_moves |-> tx1.possible_moves,
     tx0_block_index |-> tx0.block_index, tx1_block_index |-> tx1.block_index,
     block_index |-> block_index,
     tx0_expiration |-> tx0.expiration, tx1_expiration |-> tx1.expiration,
     match_expire_index |-> tx1.block_index + 20,
     status |-> "pending"]

\* Mutant: the id is built from the hash of the triggering offer first.
NewMatch_id_reversed(tx0, tx1, block_index) ==
    [id |-> tx1.tx_hash \o tx0.tx_hash,
     tx0_index |-> tx0.tx_index, tx0_hash |-> tx0.tx_hash, tx0_address |-> tx0.source,
     tx1_index |-> tx1.tx_index, tx1_hash |-> tx1.tx_hash, tx1_address |-> tx1.source,
     tx0_move_random_hash |-> tx0.move_random_hash,
     tx1_move_random_hash |-> tx1.move_random_hash,
     wager |-> tx1.wager, possible_moves |-> tx1.possible_moves,
     tx0_block_index |-> tx0.block_index, tx1_block_index |-> tx1.block_index,
     block_index |-> block_index,
     tx0_expiration |-> tx0.expiration, tx1_expiration |-> tx1.expiration,
     match_expire_index |-> block_index + 20,
     status |-> "pending"]

NewMatch(tx0, tx1, block_index) ==
    [id |-> tx0.tx_hash \o tx1.tx_hash,
     tx0_index |-> tx0.tx_index, tx0_hash |-> tx0.tx_hash, tx0_address |-> tx0.source,
     tx1_index |-> tx1.tx_index, tx1_hash |-> tx1.tx_hash, tx1_address |-> tx1.source,
     tx0_move_random_hash |-> tx0.move_random_hash,
     tx1_move_random_hash |-> tx1.move_random_hash,
     wager |-> tx1.wager, possible_moves |-> tx1.possible_moves,
     tx0_block_index |-> tx0.block_index, tx1_block_index |-> tx1.block_index,
     block_index |-> block_index,
     tx0_expiration |-> tx0.expiration, tx1_expiration |-> tx1.expiration,
     match_expire_index |-> block_index + 20,
     status |-> "pending"]

\* One call of match(), as seen at its entry, and the offer it found (0: none).
MatchCall(db, tx_index, block_index, found) ==
    [tx_index |-> tx_index, block_index |-> block_index,
     rps |-> db.rps, rps_matches |-> db.rps_matches, found |-> found]

match(db, tx_index, block_index) ==
    LET rows == {i \in 1..Len(db.rps) :
                    db.rps[i].tx_index = tx_index /\ db.rps[i].status = "open"}
    IN  IF rows = {} THEN db
        ELSE
          LET tx1 == db.rps[CHOOSE i \in rows : TRUE]
              rps_matches_ == Candidates(db, tx1)
          IN  IF rps_matches_ = {}
              THEN [db EXCEPT !.match_calls =
                                  Append(@, MatchCall(db, tx_index, block_index, 0))]
              ELSE
                LET tx0 == db.rps[FirstByTxIndex(db, rps_matches_)]
                IN  [db EXCEPT
                       !.rps = SetRpsStatus(SetRpsStatus(@, tx0.tx_index, "matched"),
                                            tx1.tx_index, "matched"),
                       !.rps_matches = Append(@, NewMatch(tx0, tx1, block_index)),
                       !.match_calls =
                           Append(@, MatchCall(db, tx_index, block_index, tx0.tx_index))]

-----------------------------------------------------------------------------
(* parse: admit one transaction.  The result is the database after the      *)
(* handler and whether the handler raised.                                  *)

Unpacks(message) == message.length = LENGTH

\* Mutant: the comparison of the overbet rule is reversed.
Overbet_reversed(db, source, wager) ==
    LET balances_ == BalanceRows(db, source)
    IN  IF balances_ = {} THEN 0
        ELSE LET balance == CHOOSE q \in balances_ : TRUE
             IN  IF balance > wager THEN balance ELSE wager

\* The wager after the overbet rule.
Overbet(db, source, wager) ==
    LET balances_ == BalanceRows(db, source)
    IN  IF balances_ = {} THEN 0
        ELSE LET balance == CHOOSE q \in balances_ : TRUE
             IN  IF balance < wager THEN balance ELSE wager

\* The status is 'open' or 'invalid: <problems>': the row keeps the word and
\* the problems apart.
NewRps(tx, possible_moves, wager, move_random_hash, expiration, problems) ==
    [tx_index |-> tx.tx_index, tx_hash |-> tx.tx_hash, block_index |-> tx.block_index,
     source |-> tx.source, possible_moves |-> possible_moves, wager |-> wager,
     move_random_hash |-> move_random_hash, expiration |-> expiration,
     expire_index |-> tx.block_index + expiration,
     status |-> IF problems = {} THEN "open" ELSE "invalid",
     problems |-> problems]

\* A message that does not unpack leaves the name expiration unbound (the
\* handler binds expirationn instead), and building the row's bindings raises.
parse(db, tx, message) ==
    IF ~Unpacks(message) THEN [db |-> db, raised |-> TRUE]
    ELSE
      LET move_random_hash == hexlify(message.move_random_hash)
          wager == Overbet(db, tx.source, message.wager)
          problems == validate(message.possible_moves, wager, move_random_hash,
                               message.expiration)
          escrowed == IF problems = {}
                      THEN debit(db, tx.source, wager, "open RPS", tx.tx_hash)
                      ELSE db
          inserted == [escrowed EXCEPT !.rps =
                          Append(@, NewRps(tx, message.possible_moves, wager,
                                           move_random_hash, message.expiration,
                                           problems))]
      IN  [db |-> IF problems = {} THEN match(inserted, tx.tx_index, tx.block_index)
                  ELSE inserted,
           raised |-> FALSE]

-----------------------------------------------------------------------------
(* expire: the expiration pass of block block_index.  The two SELECTs name  *)
(* no order: ord is the order in which the due matches are fetched and flip *)
(* the due matches whose two offers are fetched newest first.               *)

\* Mutant: an offer expires one block late.
DueRps_lagging(db, block_index) ==
    {i \in 1..Len(db.rps) :
        db.rps[i].status = "open" /\ db.rps[i].expire_index < block_index - 1}

\* Mutant: an offer expires in the block of its expire_index.
DueRps_at_index(db, block_index) ==
    {i \in 1..Len(db.rps) :
        db.rps[i].status = "open" /\ db.rps[i].expire_index <= block_index}

DueRps(db, block_index) ==
    {i \in 1..Len(db.rps) :
        db.rps[i].status = "open" /\ db.rps[i].expire_index < block_index}

\* Mutant: the pass takes only the matches nobody has revealed in.
DueMatches_pending_only(db, block_index) ==
    {k \in 1..Len(db.rps_matches) :
        /\ db.rps_matches[k].status = "pending"
        /\ db.rps_matches[k].match_expire_index < block_index}

\* Mutant: a match expires in the block of its match_expire_index.
DueMatches_at_index(db, block_index) ==
    {k \in 1..Len(db.rps_matches) :
        /\ db.rps_matches[k].status \in MatchPending
        /\ db.rps_matches[k].match_expire_index <= block_index}

DueMatches(db, block_index) ==
    {k \in 1..Len(db.rps_matches) :
        /\ db.rps_matches[k].status \in MatchPending
        /\ db.rps_matches[k].match_expire_index < block_index}

RECURSIVE ExpireRps(_, _, _)
ExpireRps(db, rows, block_index) ==
    IF rows = <<>> THEN db
    ELSE LET row == Head(rows)
             cancelled == cancel_rps(db, row, "expired", block_index)
         IN  ExpireRps([cancelled EXCEPT !.rps_expirations = @ \cup
                           {[rps_index |-> row.tx_index, rps_hash |-> row.tx_hash,
                             source |-> row.source, block_index |-> block_index]}],
                       Tail(rows), block_index)

ExpiredMatchStatus(status) ==
    IF status = "pending and resolved" THEN "concluded: second player wins"
    ELSE IF status = "resolved and pending" THEN "concluded: first player wins"
    ELSE "expired"

\* Mutant: the SELECT does not look at expire_index.
MatchedRps_any_expiry(db, rps_match, block_index) ==
    {i \in 1..Len(db.rps) :
        /\ db.rps[i].tx_hash \in {rps_match.tx0_hash, rps_match.tx1_hash}
        /\ db.rps[i].status = "matched"}

\* The offers of an expired match that are reopened.
MatchedRps(db, rps_match, block_index) ==
    {i \in 1..Len(db.rps) :
        /\ db.rps[i].tx_hash \in {rps_match.tx0_hash, rps_match.tx1_hash}
        /\ db.rps[i].status = "matched"
        /\ db.rps[i].expire_index >= block_index}

\* Mutant: reopening an offer restarts its own clock.
RECURSIVE Rematch_reset_clock(_, _, _, _)
Rematch_reset_clock(db, rps_match, rows, block_index) ==
    IF rows = <<>> THEN db
    ELSE LET row == Head(rows)
             opened == [db EXCEPT !.rps =
                          [i \in 1..Len(db.rps) |->
                              IF db.rps[i].tx_index = row.tx_index
                              THEN [db.rps[i] EXCEPT
                                      !.status = "open",
                                      !.expire_index = block_index + db.rps[i].expiration]
                              ELSE db.rps[i]]]
             escrowed == debit(opened, row.source, row.wager,
                               "reopen RPS after matching expiration", rps_match.id)
         IN  Rematch_reset_clock(match(escrowed, row.tx_index, block_index),
                                 rps_match, Tail(rows), block_index)

RECURSIVE Rematch(_, _, _, _)
Rematch(db, rps_match, rows, block_index) ==
    IF rows = <<>> THEN db
    ELSE LET row == Head(rows)
             opened == [db EXCEPT !.rps = SetRpsStatus(@, row.tx_index, "open")]
             escrowed == debit(opened, row.source, row.wager,
                               "reopen RPS after matching expiration", rps_match.id)
         IN  Rematch(match(escrowed, row.tx_index, block_index),
                     rps_match, Tail(rows), block_index)

\* Mutant: the offers are re-listed whatever the match resolved to.
ExpireMatch_always_rematch(db, rps_match, block_index, newest_first) ==
    LET new_rps_match_status == ExpiredMatchStatus(rps_match.status)
        settled == update_rps_match_status(db, rps_match, new_rps_match_status,
                                           block_index)
        recorded == [settled EXCEPT !.rps_match_expirations = @ \cup
                        {[rps_match_id |-> rps_match.id,
                          tx0_address |-> rps_match.tx0_address,
                          tx1_address |-> rps_match.tx1_address,
                          block_index |-> block_index]}]
        fetched == SortedSeq(MatchedRps(recorded, rps_match, block_index))
        matched_rps == [n \in 1..Len(fetched) |->
                           recorded.rps[(IF newest_first THEN Reverse(fetched)
                                         ELSE fetched)[n]]]
    IN  Rematch(recorded, rps_match, matched_rps, block_index)

ExpireMatch(db, rps_match, block_index, newest_first) ==
    LET new_rps_match_status == ExpiredMatchStatus(rps_match.status)
        settled == update_rps_match_status(db, rps_match, new_rps_match_status,
                                           block_index)
        recorded == [settled EXCEPT !.rps_match_expirations = @ \cup
                        {[rps_match_id |-> rps_match.id,
                          tx0_address |-> rps_match.tx0_address,
                          tx1_address |-> rps_match.tx1_address,
                          block_index |-> block_index]}]
        fetched == SortedSeq(MatchedRps(recorded, rps_match, block_index))
        matched_rps == [n \in 1..Len(fetched) |->
                           recorded.rps[(IF newest_first THEN Reverse(fetched)
                                         ELSE fetched)[n]]]
    IN  IF new_rps_match_status = "expired"
        THEN Rematch(recorded, rps_match, matched_rps, block_index)
        ELSE recorded

RECURSIVE ExpireMatches(_, _, _, _)
ExpireMatches(db, rows, block_index, flip) ==
    IF rows = <<>> THEN db
    ELSE ExpireMatches(ExpireMatch(db, Head(rows).row, block_index, Head(rows).k \in flip),
                       Tail(rows), block_index, flip)

expire(db, block_index, ord, flip) ==
    LET due_rps == SortedSeq(DueRps(db, block_index))
        offers_done == ExpireRps(db, [n \in 1..Len(due_rps) |-> db.rps[due_rps[n]]],
                                 block_index)
        due_matches == [n \in 1..Len(ord) |->
                           [k |-> ord[n], row |-> offers_done.rps_matches[ord[n]]]]
    IN  ExpireMatches(offers_done, due_matches, block_index, flip)

-----------------------------------------------------------------------------
(* The state as the database record the handlers work on. *)

DB == [rps |-> rps, rps_matches |-> rps_matches,
       rps_expirations |-> rps_expirations,
       rps_match_expirations |-> rps_match_expirations,
       balances |-> balances, credits |-> credits, debits |-> debits,
       refused |-> refused, match_calls |-> <<>>]

Commit(db) ==
    /\ rps' = db.rps
    /\ rps_matches' = db.rps_matches
    /\ rps_expirations' = db.rps_expirations
    /\ rps_match_expirations' = db.rps_match_expirations
    /\ balances' = db.balances
    /\ credits' = db.credits
    /\ debits' = db.debits
    /\ refused' = db.refused
    /\ match_calls' = db.match_calls

(* Transactions and messages. *)

Message(possible_moves, wager, expiration) ==
    [length |-> LENGTH, possible_moves |-> possible_moves, wager |-> wager,
     move_random_hash |-> Bytes(32, "c"), expiration |-> expiration]

\* A payload one byte short: nothing of it is read.
Truncated ==
    [length |-> LENGTH - 1, possible_moves |-> 0, wager |-> 0,
     move_random_hash |-> Bytes(31, "c"), expiration |-> 0]

Messages == {Message(3, 2, e) : e \in {1, MAX_EXPIRATION}}

WideMessages ==
    {Message(pm, w, e) : pm \in {1, 3, 4, 5}, w \in {0, 1, InitBalance + 2},
                         e \in {0, 1, MAX_EXPIRATION + 1}}
    \cup {Truncated}

Tx(source) ==
    [tx_index |-> Len(rps) + 1, tx_hash |-> <<Len(rps) + 1>>,
     block_index |-> height, source |-> source]

Call(op, source, message, id, status, block_index) ==
    [op |-> op, source |-> source, message |-> message, id |-> id,
     status |-> status, block_index |-> block_index]

Init ==
    /\ height = FirstHeight
    /\ rps = <<>>
    /\ rps_matches = <<>>
    /\ rps_expirations = {}
    /\ rps_match_expirations = {}
    /\ balances = [a \in Addresses |-> IF a = "X" THEN InitBalance ELSE InitBalance + 1]
    /\ credits = {}
    /\ debits = {}
    /\ refused = FALSE
    /\ aborted = FALSE
    /\ last_call = Call("init", "", Truncated, <<>>, "", FirstHeight)
    /\ match_calls = <<>>

-----------------------------------------------------------------------------
(* Actions. *)

\* A transaction of the current block is parsed.
Parse(source, message, limit) ==
    /\ ~aborted
    /\ Len(rps) < limit
    /\ height <= FirstHeight + AdmitSpan
    /\ LET done == parse(DB, Tx(source), message)
       IN  /\ Commit(done.db)
           /\ aborted' = done.raised
    /\ last_call' = Call("parse", source, message, <<>>, "", height)
    /\ height' = height

\* The next block begins: its expiration pass runs before its transactions.
NewBlock(limit) ==
    /\ ~aborted
    /\ height < limit
    /\ \E ord \in Orders(DueMatches(DB, height + 1)) :
         \E flip \in SUBSET DueMatches(DB, height + 1) :
           Commit(expire(DB, height + 1, ord, flip))
    /\ last_call' = Call("expire", "", Truncated, <<>>, "", height + 1)
    /\ height' = height + 1
    /\ UNCHANGED aborted

\* The reveal collaborator (rpsresolve) reports one side revealed, or the
\* outcome once both have.
RevealStatuses(status) ==
    IF status = "pending" THEN {"pending and resolved", "resolved and pending"}
    ELSE IF status \in MatchPending THEN MatchConcluded
    ELSE {}

SetStatus(k, status) ==
    /\ ~aborted
    /\ Commit(update_rps_match_status(DB, rps_matches[k], status, height))
    /\ last_call' = Call("update_rps_match_status", "", Truncated,
                         rps_matches[k].id, status, height)
    /\ UNCHANGED <<height, aborted>>

Reveal ==
    \E k \in 1..Len(rps_matches) :
        \E status \in RevealStatuses(rps_matches[k].status) : SetStatus(k, status)

\* The same terminal status is delivered again.
Replay ==
    \E k \in 1..Len(rps_matches) :
        /\ rps_matches[k].status \in MatchTerminal
        /\ SetStatus(k, rps_matches[k].status)

\* A status is delivered for a match that is already in a terminal status.
Late ==
    \E k \in 1..Len(rps_matches) :
        /\ rps_matches[k].status \in MatchTerminal
        /\ \E status \in MatchPending \cup MatchTerminal : SetStatus(k, status)

Admit ==
    \E source \in Addresses : \E message \in Messages : Parse(source, message, MaxOffers)

\* Admission over every kind of payload and source, for one offer fewer.
AdmitWide ==
    \E source \in AllAddresses : \E message \in WideMessages :
        Parse(source, message, MaxOffers - 1)

Next ==
    \/ Admit
    \/ NewBlock(FirstHeight + MaxTicks)
    \/ Reveal

Spec == Init /\ [][Next]_vars

NextAdmit ==
    \/ AdmitWide
    \/ NewBlock(FirstHeight + AdmitSpan + 1)
    \/ Reveal

SpecAdmit == Init /\ [][NextAdmit]_vars

NextReplay ==
    \/ Admit
    \/ NewBlock(FirstHeight + MaxTicks)
    \/ Reveal
    \/ Replay

SpecReplay == Init /\ [][NextReplay]_vars

NextLate ==
    \/ Admit
    \/ NewBlock(FirstHeight + AdmitSpan + 1)
    \/ Reveal
    \/ Late

SpecLate == Init /\ [][NextLate]_vars

\* Three funded sources, so that an open offer can be matched with either side
\* of a match that expires.
OrderAddresses == Addresses \cup {"W"}

InitOrder ==
    /\ height = FirstHeight
    /\ rps = <<>>
    /\ rps_matches = <<>>
    /\ rps_expirations = {}
    /\ rps_match_expirations = {}
    /\ balances = [a \in OrderAddresses |-> InitBalance]
    /\ credits = {}
    /\ debits = {}
    /\ refused = FALSE
    /\ aborted = FALSE
    /\ last_call = Call("init", "", Truncated, <<>>, "", FirstHeight)
    /\ match_calls = <<>>

AdmitOrder ==
    \E source \in OrderAddresses : Parse(source, Message(3, 2, MAX_EXPIRATION), MaxOffers)

NextOrder ==
    \/ AdmitOrder
    \/ NewBlock(FirstHeight + MaxTicks)
    \/ Reveal

SpecOrder == InitOrder /\ [][NextOrder]_vars

\* The last block of the runs that follow every offer to its end: the block
\* after the latest expiry of a match formed for an offer re-listed in the block
\* of its own expire_index.
LiveLimit == FirstHeight + AdmitSpan + MAX_EXPIRATION + 21

NextLive ==
    \/ Admit
    \/ NewBlock(LiveLimit)
    \/ Reveal

\* The next block arrives. A step of NextLive that changes height is a step of
\* NewBlock(LiveLimit), and NewBlock(LiveLimit) is enabled exactly where this is.
Tick == ~aborted /\ height < LiveLimit /\ height' = height + 1

\* Blocks keep coming: the expiration pass of the next block is run whenever
\* there is a next block.
SpecLive == Init /\ [][NextLive]_vars /\ WF_height(Tick)

-----------------------------------------------------------------------------
(* Funds. *)

RECURSIVE SumSeq(_)
SumSeq(s) == IF s = <<>> THEN 0 ELSE Head(s) + SumSeq(Tail(s))

RECURSIVE SumBalances(_, _)
SumBalances(bal, S) ==
    IF S = {} THEN 0
    ELSE LET a == CHOOSE x \in S : TRUE IN bal[a] + SumBalances(bal, S \ {a})

InitialFunds == InitBalance + (InitBalance + 1)

\* What the offer book holds: the wager of every open offer and both wagers of
\* every match that is not settled.
OfferEscrow == SumSeq([i \in 1..Len(rps) |->
                          IF rps[i].status = "open" THEN rps[i].wager ELSE 0])

MatchEscrow == SumSeq([k \in 1..Len(rps_matches) |->
                          IF rps_matches[k].status \in MatchPending
                          THEN 2 * rps_matches[k].wager ELSE 0])

\* C1: conservation of funds. In every state reached by admissions, reveals and
\* expiration passes, the balances plus the wager of every open offer plus twice
\* the wager of every pending or half-resolved match equal the initial balances.
C1_Conservation ==
    SumBalances(balances, DOMAIN balances) + OfferEscrow + MatchEscrow = InitialFunds

\* An expiration pass has settled a match as expired, one reopened offer has
\* been matched again and the other waits open.
C1_Witness ==
    /\ last_call.op = "expire"
    /\ \E k \in 1..Len(rps_matches) : rps_matches[k].status = "expired"
    /\ \E k \in 1..Len(rps_matches) : rps_matches[k].status = "pending"
    /\ \E i \in 1..Len(rps) :
          /\ rps[i].status = "open"
          /\ \E d \in debits : d.address = rps[i].source /\ Len(d.event) = 2

-----------------------------------------------------------------------------
\* C2: no pairing twice. No two rows of rps_matches, whatever their status and
\* side order, are made of the same two offers.
C2_NoPairTwice ==
    \A k, l \in 1..Len(rps_matches) :
        k # l => {rps_matches[k].tx0_hash, rps_matches[k].tx1_hash}
                 # {rps_matches[l].tx0_hash, rps_matches[l].tx1_hash}

\* Both offers of an expired match were reopened in one pass: the second one
\* called match() while the first was open and compatible, and found nothing.
C2_Witness ==
    /\ last_call.op = "expire"
    /\ \E k \in 1..Len(rps_matches) :
          /\ rps_matches[k].status = "expired"
          /\ \E n \in 1..Len(match_calls) :
               LET c == match_calls[n]
                   other == IF c.tx_index = rps_matches[k].tx0_index
                            THEN rps_matches[k].tx1_index
                            ELSE rps_matches[k].tx0_index
               IN  /\ c.tx_index \in {rps_matches[k].tx0_index, rps_matches[k].tx1_index}
                   /\ c.found = 0
                   /\ \E j \in 1..Len(c.rps) :
                        /\ c.rps[j].tx_index = other
                        /\ c.rps[j].status = "open"

-----------------------------------------------------------------------------
(* Settlement. *)

\* The credits the ledger applied for a match.
PaidFor(rps_match) == {c \in credits : c.event = rps_match.id}

Recredits(rps_match) ==
    {LedgerRow(rps_match.tx0_address, rps_match.wager, "recredit wager", rps_match.id),
     LedgerRow(rps_match.tx1_address, rps_match.wager, "recredit wager", rps_match.id)}

Wins(rps_match, address) ==
    {LedgerRow(address, 2 * rps_match.wager, "wins", rps_match.id)}

PaidOnce ==
    \A k \in 1..Len(rps_matches) :
        LET m == rps_matches[k]
        IN  IF m.status \in MatchPending THEN PaidFor(m) = {}
            ELSE \/ PaidFor(m) = Recredits(m)
                 \/ PaidFor(m) = Wins(m, m.tx0_address)
                 \/ PaidFor(m) = Wins(m, m.tx1_address)

\* The step delivers to a match the terminal status it already has.
ReplayStep ==
    /\ last_call'.op = "update_rps_match_status"
    /\ last_call'.status \in MatchTerminal
    /\ \E k \in 1..Len(rps_matches) :
          /\ rps_matches[k].id = last_call'.id
          /\ rps_matches[k].status = last_call'.status

\* C3: settlement is idempotent and fires once. Delivering a terminal status to
\* a match that already has it leaves every balance as it was, and the credits
\* applied for a match are none while it is unsettled and afterwards either one
\* recredit of the wager to each side or one credit of twice the wager to one
\* side, never both.
C3_SettledOnce ==
    /\ []PaidOnce
    /\ [][ReplayStep => balances' = balances /\ credits' = credits]_vars

\* The status expired was delivered again to a match the expiration pass had
\* settled as expired.
C3_Witness ==
    /\ last_call.op = "update_rps_match_status"
    /\ last_call.status = "expired"
    /\ \E k \in 1..Len(rps_matches) :
          /\ rps_matches[k].id = last_call.id
          /\ rps_matches[k].status = "expired"
          /\ PaidFor(rps_matches[k]) = Recredits(rps_matches[k])

-----------------------------------------------------------------------------
(* Matching. *)

\* The triggering offer of a call of match(), as the call found it.
Trigger(c) == c.rps[CHOOSE i \in 1..Len(c.rps) : c.rps[i].tx_index = c.tx_index]

\* The offers the triggering offer was paired with before the call.
Excluded(c) ==
    {h \in {c.rps[i].tx_hash : i \in 1..Len(c.rps)} :
        \E k \in 1..Len(c.rps_matches) :
            {c.rps_matches[k].tx0_hash, c.rps_matches[k].tx1_hash}
                = {Trigger(c).tx_hash, h}}

\* The sequence indices of the offers eligible for the triggering offer.
Eligible(c) ==
    {c.rps[i].tx_index : i \in {i \in 1..Len(c.rps) :
        /\ c.rps[i].status = "open"
        /\ c.rps[i].possible_moves = Trigger(c).possible_moves
        /\ c.rps[i].wager = Trigger(c).wager
        /\ c.rps[i].source # Trigger(c).source
        /\ c.rps[i].tx_hash \notin Excluded(c)}}

\* C4: FIFO matching. Every call of match() for an open offer T pairs T with the
\* eligible offer of lowest sequence index (open, same possible_moves and wager,
\* another source, not paired with T before) and forms that Match whenever an
\* eligible offer exists; with none, it forms no Match.
C4_Fifo ==
    \A n \in 1..Len(match_calls) :
        LET c == match_calls[n]
        IN  IF Eligible(c) = {} THEN c.found = 0
            ELSE /\ c.found = Min(Eligible(c))
                 /\ \E k \in 1..Len(rps_matches) :
                       /\ rps_matches[k].tx0_index = c.found
                       /\ rps_matches[k].tx1_index = c.tx_index
                       /\ rps_matches[k].block_index = c.block_index

\* A call of match() had two eligible offers and took the older one; the newer
\* one is still open.
C4_Witness ==
    \E n \in 1..Len(match_calls) :
        LET c == match_calls[n]
        IN  /\ Cardinality(Eligible(c)) >= 2
            /\ c.found = Min(Eligible(c))
            /\ \E i \in 1..Len(rps) :
                  /\ rps[i].tx_index \in Eligible(c) \ {c.found}
                  /\ rps[i].status = "open"

-----------------------------------------------------------------------------
(* Admission. *)

\* The step parses a payload that unpacks.
UnpackedParseStep ==
    /\ last_call'.op = "parse"
    /\ Unpacks(last_call'.message)

BalanceOf(bal, address) == IF address \in DOMAIN bal THEN bal[address] ELSE 0

\* The validation rules of an offer of the given wager.
RulesPass(message, wager) ==
    /\ message.possible_moves >= 3
    /\ message.possible_moves % 2 = 1
    /\ wager > 0
    /\ message.expiration > 0
    /\ message.expiration <= MAX_EXPIRATION
    /\ message.move_random_hash.len = 32

\* C5: balance truncation at admission. Every admission whose payload unpacks
\* records the wager min(requested, balance of the source before the step); if
\* the rules pass, the offer is open when it is handed to the matching engine
\* and exactly the recorded wager is debited from the source; if the balance is
\* zero or absent, the offer is invalid for a non-positive wager and nothing is
\* debited.
C5_Truncation ==
    [][UnpackedParseStep =>
        LET message == last_call'.message
            source == last_call'.source
            before == BalanceOf(balances, source)
            offer == rps'[Len(rps')]
        IN  /\ Len(rps') = Len(rps) + 1
            /\ offer.wager = IF message.wager <= before THEN message.wager ELSE before
            /\ RulesPass(message, offer.wager) =>
                  /\ Len(match_calls') = 1
                  /\ Trigger(match_calls'[1]) = [offer EXCEPT !.status = "open"]
                  /\ offer.status \in {"open", "matched"}
                  /\ BalanceOf(balances', source) = before - offer.wager
                  /\ debits' = debits \cup
                        {LedgerRow(source, offer.wager, "open RPS", offer.tx_hash)}
            /\ before = 0 =>
                  /\ offer.status = "invalid"
                  /\ "non-positive wager" \in offer.problems
                  /\ balances' = balances
                  /\ debits' = debits
    ]_vars

\* An offer asked for more than its source had: it is open with the whole
\* balance as its wager, and the source has nothing left.
C5_Witness ==
    /\ last_call.op = "parse"
    /\ Unpacks(last_call.message)
    /\ rps[Len(rps)].status = "open"
    /\ rps[Len(rps)].wager > 0
    /\ rps[Len(rps)].wager < last_call.message.wager
    /\ BalanceOf(balances, last_call.source) = 0

-----------------------------------------------------------------------------
(* Invalid offers. *)

\* The stored offer breaks a validation rule.
BreaksRule(offer) ==
    \/ offer.possible_moves < 3
    \/ offer.possible_moves % 2 = 0
    \/ offer.wager <= 0
    \/ offer.expiration <= 0
    \/ offer.expiration > MAX_EXPIRATION
    \/ unhexlify(offer.move_random_hash).len # 32

InvalidUntouched ==
    \A i \in 1..Len(rps) :
        /\ BreaksRule(rps[i]) => rps[i].status = "invalid"
        /\ rps[i].status = "invalid" =>
              /\ \A d \in debits : d.event # rps[i].tx_hash
              /\ \A c \in credits : c.event # rps[i].tx_hash
              /\ \A k \in 1..Len(rps_matches) :
                    rps[i].tx_index \notin
                        {rps_matches[k].tx0_index, rps_matches[k].tx1_index}
              /\ \A e \in rps_expirations : e.rps_index # rps[i].tx_index

\* C6: invalid offers are inert. An offer that breaks a validation rule is
\* stored invalid; an invalid offer was not debited, is on no side of any Match,
\* is never credited or recorded as expired, and no step changes its row.
C6_InvalidInert ==
    /\ []InvalidUntouched
    /\ [][\A i \in 1..Len(rps) :
             rps[i].status = "invalid" => Len(rps') >= i /\ rps'[i] = rps[i]]_vars

\* An expiration pass has run past the expire_index of an invalid offer while
\* an open offer of another source with its possible_moves and wager waits.
C6_Witness ==
    /\ last_call.op = "expire"
    /\ \E i, j \in 1..Len(rps) :
          /\ rps[i].status = "invalid"
          /\ rps[i].expire_index < height
          /\ rps[j].status = "open"
          /\ j > i
          /\ rps[j].possible_moves = rps[i].possible_moves
          /\ rps[j].wager = rps[i].wager
          /\ rps[j].source # rps[i].source

-----------------------------------------------------------------------------
(* Malformed payloads and late statuses. *)

\* C7: malformed input is never fatal. After the parse of a payload that does
\* not unpack, the handler has ended normally and has stored an invalid offer,
\* with no debit and no call of match().
C7_MalformedNotFatal ==
    (last_call.op = "parse" /\ ~Unpacks(last_call.message)) =>
        /\ ~aborted
        /\ Len(rps) >= 1
        /\ rps[Len(rps)].status = "invalid"
        /\ rps[Len(rps)].source = last_call.source
        /\ \A d \in debits : d.event # rps[Len(rps)].tx_hash
        /\ match_calls = <<>>

\* The step delivers a status to a match that is in a terminal status.
LateStep ==
    /\ last_call'.op = "update_rps_match_status"
    /\ \E k \in 1..Len(rps_matches) :
          /\ rps_matches[k].id = last_call'.id
          /\ rps_matches[k].status \in MatchTerminal

\* C8: set_status rejects ineligible matches. A status delivered to a match that
\* is expired or concluded changes neither the match nor any balance.
C8_LateRejected ==
    [][LateStep => rps_matches' = rps_matches /\ balances' = balances]_vars

-----------------------------------------------------------------------------
(* Payouts and match expiration. *)

RECURSIVE SumRows(_)
SumRows(S) ==
    IF S = {} THEN 0
    ELSE LET row == CHOOSE x \in S : TRUE IN row.quantity + SumRows(S \ {row})

To(rows, address) == {row \in rows : row.address = address}

ExpectedCredits(rps_match, status) ==
    CASE status \in {"expired", "concluded: tie"} -> Recredits(rps_match)
      [] status = "concluded: first player wins" -> Wins(rps_match, rps_match.tx0_address)
      [] status = "concluded: second player wins" -> Wins(rps_match, rps_match.tx1_address)
      [] OTHER -> {}

\* C9: settlement payouts. Whenever the status of a match changes, the credits
\* applied for it in that step are: the wager to each side for expired and for a
\* tie, twice the wager to side 0 alone for a first-player win, twice the wager
\* to side 1 alone for a second-player win, nothing for the half-resolved
\* statuses; and every balance moves by the credits less the debits applied.
C9_Payouts ==
    [][/\ \A k \in 1..Len(rps_matches) :
            rps_matches'[k].status # rps_matches[k].status =>
                {c \in credits' \ credits : c.event = rps_matches[k].id}
                    = ExpectedCredits(rps_matches[k], rps_matches'[k].status)
       /\ \A a \in AllAddresses :
            BalanceOf(balances', a) - BalanceOf(balances, a)
                = SumRows(To(credits' \ credits, a)) - SumRows(To(debits' \ debits, a))
    ]_vars

\* A match that was pending and resolved timed out: the expiration pass made it
\* a second-player win and the only credit for it is twice the wager to side 1.
C9_Witness ==
    /\ last_call.op = "expire"
    /\ \E k \in 1..Len(rps_matches) :
          /\ rps_matches[k].status = "concluded: second player wins"
          /\ rps_matches[k].match_expire_index = height - 1
          /\ PaidFor(rps_matches[k]) = Wins(rps_matches[k], rps_matches[k].tx1_address)
          /\ BalanceOf(balances, rps_matches[k].tx1_address)
                >= 2 * rps_matches[k].wager

ExpirationPolicy(status) ==
    CASE status = "pending" -> "expired"
      [] status = "pending and resolved" -> "concluded: second player wins"
      [] status = "resolved and pending" -> "concluded: first player wins"

MatchExpirationRecords(records, rps_match) ==
    {e \in records : e.rps_match_id = rps_match.id}

\* C10: match expiration policy. The expiration pass of block h takes every
\* match that is pending or half-resolved with match_expire_index < h to
\* expired, second player wins, first player wins respectively, settles it and
\* appends one match-expiration record for block h; every other match, one with
\* match_expire_index >= h or in a terminal status, keeps its row, gets no
\* record and no credit.
C10_MatchExpiration ==
    [][height' = height + 1 =>
        \A k \in 1..Len(rps_matches) :
            LET m == rps_matches[k]
                paid == {c \in credits' \ credits : c.event = m.id}
                recorded == MatchExpirationRecords(rps_match_expirations', m)
                              \ MatchExpirationRecords(rps_match_expirations, m)
            IN  IF m.status \in MatchPending /\ m.match_expire_index < height'
                THEN /\ rps_matches'[k] =
                            [m EXCEPT !.status = ExpirationPolicy(m.status)]
                     /\ paid = ExpectedCredits(m, ExpirationPolicy(m.status))
                     /\ recorded = {[rps_match_id |-> m.id,
                                     tx0_address |-> m.tx0_address,
                                     tx1_address |-> m.tx1_address,
                                     block_index |-> height']}
                ELSE /\ rps_matches'[k] = m
                     /\ paid = {}
                     /\ recorded = {}
    ]_vars

\* A match formed in the block after the first was still pending 20 blocks
\* later and is expired by the pass of the block after that.
C10_Witness ==
    /\ last_call.op = "expire"
    /\ \E k \in 1..Len(rps_matches) :
          /\ rps_matches[k].block_index = FirstHeight + 1
          /\ rps_matches[k].match_expire_index = FirstHeight + 21
          /\ rps_matches[k].status = "expired"
          /\ height = FirstHeight + 22
          /\ [rps_match_id |-> rps_matches[k].id,
              tx0_address |-> rps_matches[k].tx0_address,
              tx1_address |-> rps_matches[k].tx1_address,
              block_index |-> height] \in rps_match_expirations

-----------------------------------------------------------------------------
(* Re-listing and offer expiration. *)

\* The step is the expiration pass of block height'.
ExpireStep == height' = height + 1

ReopenDebit(offer, rps_match) ==
    LedgerRow(offer.source, offer.wager, "reopen RPS after matching expiration",
              rps_match.id)

\* The match is due in the pass of block h.
Due(rps_match, h) ==
    rps_match.status \in MatchPending /\ rps_match.match_expire_index < h

\* The sides of a match, as rows of the rps table.
Sides(rps_match) ==
    {i \in 1..Len(rps) : rps[i].tx_hash \in {rps_match.tx0_hash, rps_match.tx1_hash}}

\* The pairs (match, offer) the pass of block h has to re-list.
ToRelist(h) ==
    {p \in (1..Len(rps_matches)) \X (1..Len(rps)) :
        /\ Due(rps_matches[p[1]], h)
        /\ p[2] \in Sides(rps_matches[p[1]])
        /\ rps_matches[p[1]].status = "pending"
        /\ rps[p[2]].status = "matched"
        /\ rps[p[2]].expire_index >= h}

\* C11: re-listing if and only if. In the expiration pass of block h an offer of
\* a due match is reopened, debited its wager again and handed open to the
\* matching engine exactly when the match was plain pending (so it resolves to
\* expired), the offer is matched and its expire_index >= h; every other offer
\* of a due match keeps its row and is not debited, and the pass debits nothing
\* else and calls the matching engine for no other offer.
C11_RelistIff ==
    [][ExpireStep =>
        /\ \A p \in ToRelist(height') :
              /\ ReopenDebit(rps[p[2]], rps_matches[p[1]]) \in debits' \ debits
              /\ rps'[p[2]].status \in {"open", "matched"}
              /\ \E n \in 1..Len(match_calls') :
                    /\ match_calls'[n].tx_index = rps[p[2]].tx_index
                    /\ match_calls'[n].block_index = height'
                    /\ Trigger(match_calls'[n]) = [rps[p[2]] EXCEPT !.status = "open"]
        /\ \A k \in 1..Len(rps_matches) : \A i \in Sides(rps_matches[k]) :
              (Due(rps_matches[k], height') /\ <<k, i>> \notin ToRelist(height')) =>
                  /\ rps'[i] = rps[i]
                  /\ ReopenDebit(rps[i], rps_matches[k]) \notin debits'
        /\ debits' \ debits =
              {ReopenDebit(rps[p[2]], rps_matches[p[1]]) : p \in ToRelist(height')}
        /\ {match_calls'[n].tx_index : n \in 1..Len(match_calls')} =
              {rps[p[2]].tx_index : p \in ToRelist(height')}
    ]_vars

\* The pass has expired a match of which one offer was reopened and the other,
\* past its own expire_index, was not.
C11_Witness ==
    /\ last_call.op = "expire"
    /\ \E k \in 1..Len(rps_matches) : \E i, j \in Sides(rps_matches[k]) :
          /\ rps_matches[k].status = "expired"
          /\ [rps_match_id |-> rps_matches[k].id,
              tx0_address |-> rps_matches[k].tx0_address,
              tx1_address |-> rps_matches[k].tx1_address,
              block_index |-> height] \in rps_match_expirations
          /\ rps[i].status = "open"
          /\ ReopenDebit(rps[i], rps_matches[k]) \in debits
          /\ rps[j].status = "matched"
          /\ rps[j].expire_index < height
          /\ ReopenDebit(rps[j], rps_matches[k]) \notin debits

OfferExpirationRecords(records, offer) == {e \in records : e.rps_index = offer.tx_index}

\* The ledger rows of an event that names the offer: its own hash or the id of
\* a match it is a side of.
RowsOf(rows, offer) ==
    {row \in rows : \E n \in 1..Len(row.event) : <<row.event[n]>> = offer.tx_hash}

\* C12: offer expiration. The expiration pass of block h takes every offer that
\* is open with expire_index < h to expired, credits its source its wager and
\* appends one record for block h; it expires no other offer; and an expired
\* offer keeps its row for ever and is never credited or debited again.
C12_OfferExpiration ==
    [][/\ ExpireStep =>
            \A i \in 1..Len(rps) :
                LET recorded == OfferExpirationRecords(rps_expirations', rps[i])
                                  \ OfferExpirationRecords(rps_expirations, rps[i])
                IN  IF rps[i].status = "open" /\ rps[i].expire_index < height'
                    THEN /\ rps'[i] = [rps[i] EXCEPT !.status = "expired"]
                         /\ RowsOf(credits' \ credits, rps[i]) =
                               {LedgerRow(rps[i].source, rps[i].wager,
                                          "recredit wager", rps[i].tx_hash)}
                         /\ recorded = {[rps_index |-> rps[i].tx_index,
                                         rps_hash |-> rps[i].tx_hash,
                                         source |-> rps[i].source,
                                         block_index |-> height']}
                    ELSE /\ rps'[i].status = "expired" => rps[i].status = "expired"
                         /\ recorded = {}
       /\ ~ExpireStep => rps_expirations' = rps_expirations
       /\ \A i \in 1..Len(rps) :
            rps[i].status = "expired" =>
                /\ rps'[i] = rps[i]
                /\ RowsOf(credits' \ credits, rps[i]) = {}
                /\ RowsOf(debits' \ debits, rps[i]) = {}
    ]_vars

\* An offer that was matched, reopened when its match expired and then left
\* open is expired by the pass of the block after its expire_index, and its
\* source has its wager back.
C12_Witness ==
    /\ last_call.op = "expire"
    /\ \E i \in 1..Len(rps) :
          /\ rps[i].status = "expired"
          /\ rps[i].expire_index = height - 1
          /\ \E d \in debits : d.address = rps[i].source /\ Len(d.event) = 2
                               /\ d.event[1] = rps[i].tx_index
          /\ LedgerRow(rps[i].source, rps[i].wager, "recredit wager", rps[i].tx_hash)
                \in credits
          /\ [rps_index |-> rps[i].tx_index, rps_hash |-> rps[i].tx_hash,
              source |-> rps[i].source, block_index |-> height] \in rps_expirations

-----------------------------------------------------------------------------
(* Replay. *)

\* The tables a pass leaves when the due matches are fetched oldest first and
\* the offers of each match oldest first.
InOrder(h) == expire(DB, h, SortedSeq(DueMatches(DB, h)), {})

\* C13: determinism of replay. The tables an expiration pass leaves do not
\* depend on the order in which the due matches, or the two offers of one due
\* match, are fetched: every pass leaves what the oldest-first order leaves.
C13_OrderIndependent ==
    [][ExpireStep =>
        /\ rps' = InOrder(height').rps
        /\ rps_matches' = InOrder(height').rps_matches
        /\ rps_expirations' = InOrder(height').rps_expirations
        /\ rps_match_expirations' = InOrder(height').rps_match_expirations
        /\ balances' = InOrder(height').balances
        /\ credits' = InOrder(height').credits
        /\ debits' = InOrder(height').debits
    ]_vars

-----------------------------------------------------------------------------
(* Matches. *)

\* The matches an offer is a side of.
MatchesOf(i) == {k \in 1..Len(rps_matches) : i \in Sides(rps_matches[k])}

\* C14: an offer is never committed to two matches at once. Of two matches that
\* share an offer the earlier one is expired and the offer was reopened from it
\* (so no two of them are unsettled together, and no offer is found twice in
\* one open period), and both sides of an unsettled match are matched.
C14_OneMatchAtOnce ==
    /\ \A i \in 1..Len(rps) : \A k, l \in MatchesOf(i) :
          k < l => /\ rps_matches[k].status = "expired"
                   /\ ReopenDebit(rps[i], rps_matches[k]) \in debits
    /\ \A k \in 1..Len(rps_matches) :
          rps_matches[k].status \in MatchPending =>
              /\ Cardinality(Sides(rps_matches[k])) = 2
              /\ \A i \in Sides(rps_matches[k]) : rps[i].status = "matched"

\* An offer is a side of two matches: the first expired, the second unsettled.
C14_Witness ==
    \E i \in 1..Len(rps) : \E k, l \in MatchesOf(i) :
        /\ k < l
        /\ rps_matches[k].status = "expired"
        /\ rps_matches[l].status \in MatchPending
        /\ rps[i].status = "matched"

\* C15: the core never over-debits. The ledger has refused no debit (every debit
\* of an admission, after truncation, and of a re-listing was at most the
\* balance it found) and no balance is negative.
C15_NeverOverdebit ==
    /\ ~refused
    /\ \A a \in DOMAIN balances : balances[a] >= 0

\* A re-listing has debited a source down to nothing: its balance was exactly
\* the wager credited back by the expired match.
C15_Witness ==
    /\ last_call.op = "expire"
    /\ ~refused
    /\ \E d \in debits :
          /\ d.action = "reopen RPS after matching expiration"
          /\ d.quantity > 0
          /\ balances[d.address] = 0
          /\ \E i \in 1..Len(rps) : rps[i].source = d.address /\ rps[i].wager < 2

\* The offer of a sequence index, now.
Offer(tx_index) == rps[CHOOSE i \in 1..Len(rps) : rps[i].tx_index = tx_index]

\* The offer a call of match() found, as it was at the entry of the call.
Found(c) == c.rps[CHOOSE i \in 1..Len(c.rps) : c.rps[i].tx_index = c.found]

\* C16: match formation postcondition. Every call of match() that found an offer
\* found it open, for an open triggering offer of another source with the same
\* wager and possible_moves; after the handler both offers are matched and one
\* new pending match of that wager and possible_moves expires 20 blocks after
\* the block of the call. In every match the sides have different sources.
C16_MatchFormation ==
    /\ \A n \in 1..Len(match_calls) :
          LET c == match_calls[n]
          IN  c.found # 0 =>
                /\ Trigger(c).status = "open"
                /\ Found(c).status = "open"
                /\ Offer(c.tx_index).status = "matched"
                /\ Offer(c.found).status = "matched"
                /\ Found(c).source # Trigger(c).source
                /\ \E k \in 1..Len(rps_matches) :
                      /\ k > Len(c.rps_matches)
                      /\ rps_matches[k].tx0_index = c.found
                      /\ rps_matches[k].tx1_index = c.tx_index
                      /\ rps_matches[k].status = "pending"
                      /\ rps_matches[k].block_index = c.block_index
                      /\ rps_matches[k].match_expire_index = c.block_index + 20
                      /\ rps_matches[k].wager = Trigger(c).wager
                      /\ rps_matches[k].wager = Found(c).wager
                      /\ rps_matches[k].possible_moves = Trigger(c).possible_moves
                      /\ rps_matches[k].possible_moves = Found(c).possible_moves
    /\ \A k \in 1..Len(rps_matches) :
          /\ rps_matches[k].tx0_address # rps_matches[k].tx1_address
          /\ rps_matches[k].match_expire_index = rps_matches[k].block_index + 20
          /\ \A i \in Sides(rps_matches[k]) :
                /\ rps[i].wager = rps_matches[k].wager
                /\ rps[i].possible_moves = rps_matches[k].possible_moves
                /\ rps[i].source \in {rps_matches[k].tx0_address, rps_matches[k].tx1_address}

\* A re-listed offer, admitted 21 blocks before, has just formed a match that
\* expires 20 blocks from now.
C16_Witness ==
    /\ last_call.op = "expire"
    /\ \E n \in 1..Len(match_calls) :
          LET c == match_calls[n]
          IN  /\ c.found # 0
              /\ c.block_index = height
              /\ Trigger(c).block_index < height
              /\ \E k \in 1..Len(rps_matches) :
                    /\ rps_matches[k].tx1_index = c.tx_index
                    /\ rps_matches[k].tx0_index = c.found
                    /\ rps_matches[k].match_expire_index = height + 20
                    /\ rps_matches[k].status = "pending"

-----------------------------------------------------------------------------
(* Sides. *)

\* The match rows a call of match() has formed.
FormedBy(c) ==
    {k \in 1..Len(rps_matches) :
        /\ k > Len(c.rps_matches)
        /\ rps_matches[k].tx1_index = c.tx_index
        /\ rps_matches[k].block_index = c.block_index}

\* Side 0 of every match formed by a call of match() is the offer the call
\* found, side 1 the offer the call was made for, and the id is the hash of
\* side 0 followed by the hash of side 1.
FoundThenTrigger ==
    /\ \A n \in 1..Len(match_calls) :
          LET c == match_calls[n]
          IN  c.found # 0 =>
                /\ Cardinality(FormedBy(c)) = 1
                /\ \A k \in FormedBy(c) :
                      /\ rps_matches[k].tx0_index = c.found
                      /\ rps_matches[k].tx0_hash = Found(c).tx_hash
                      /\ rps_matches[k].tx0_address = Found(c).source
                      /\ rps_matches[k].tx0_move_random_hash = Found(c).move_random_hash
                      /\ rps_matches[k].tx1_hash = Trigger(c).tx_hash
                      /\ rps_matches[k].tx1_address = Trigger(c).source
                      /\ rps_matches[k].tx1_move_random_hash = Trigger(c).move_random_hash
                      /\ rps_matches[k].id = Found(c).tx_hash \o Trigger(c).tx_hash
    /\ \A k \in 1..Len(rps_matches) :
          /\ rps_matches[k].id = rps_matches[k].tx0_hash \o rps_matches[k].tx1_hash
          /\ Offer(rps_matches[k].tx0_index).tx_hash = rps_matches[k].tx0_hash
          /\ Offer(rps_matches[k].tx1_index).tx_hash = rps_matches[k].tx1_hash

\* C17 as claimed: side assignment, with side 0 the older offer in every match,
\* those formed for a re-listed offer included.
C17_Side0Older ==
    /\ FoundThenTrigger
    /\ \A k \in 1..Len(rps_matches) : rps_matches[k].tx0_index < rps_matches[k].tx1_index

\* C17, amended: side 0 is the found offer, side 1 the triggering offer and the
\* id the two hashes in that order, in every match; side 0 is the older offer in
\* every match formed in the block that admitted the triggering offer.
C17_SideAssignment ==
    /\ FoundThenTrigger
    /\ \A k \in 1..Len(rps_matches) :
          rps_matches[k].block_index = rps_matches[k].tx1_block_index =>
              rps_matches[k].tx0_index < rps_matches[k].tx1_index
    /\ last_call.op = "parse" =>
          \A n \in 1..Len(match_calls) :
              match_calls[n].found # 0 => match_calls[n].found < match_calls[n].tx_index

\* A re-listed offer has found an offer admitted after it: side 0 of the new
\* match is the found, newer offer.
C17_Witness ==
    /\ last_call.op = "expire"
    /\ \E n \in 1..Len(match_calls) :
          LET c == match_calls[n]
          IN  /\ c.found > c.tx_index
              /\ \E k \in FormedBy(c) :
                    /\ rps_matches[k].tx0_index = c.found
                    /\ rps_matches[k].tx0_index > rps_matches[k].tx1_index
                    /\ rps_matches[k].id = Found(c).tx_hash \o Trigger(c).tx_hash

-----------------------------------------------------------------------------
(* Frame of re-listing. *)

\* C18: re-listing frame. No step changes anything of a stored offer but its
\* status: across any number of match, expire and reopen cycles the row keeps
\* its source, wager, possible_moves, move_random_hash, expiration and
\* expire_index (which stays block_index + expiration); rows are never removed.
C18_RelistFrame ==
    [][/\ Len(rps') >= Len(rps)
       /\ \A i \in 1..Len(rps) :
             /\ [rps'[i] EXCEPT !.status = rps[i].status] = rps[i]
             /\ rps[i].status # "invalid" =>
                   rps'[i].expire_index = rps'[i].block_index + rps'[i].expiration
       /\ ExpireStep =>
             \A p \in ToRelist(height') :
                 /\ rps'[p[2]].wager = rps[p[2]].wager
                 /\ rps'[p[2]].expire_index = rps[p[2]].expire_index
                 /\ rps'[p[2]].status # rps[p[2]].status =>
                       rps'[p[2]] = [rps[p[2]] EXCEPT !.status = "open"]
    ]_vars

\* An offer has been matched, reopened when the match expired, and is open
\* again with the expire_index it was admitted with.
C18_Witness ==
    /\ last_call.op = "expire"
    /\ \E i \in 1..Len(rps) : \E k \in MatchesOf(i) :
          /\ rps_matches[k].status = "expired"
          /\ ReopenDebit(rps[i], rps_matches[k]) \in debits
          /\ rps[i].status = "open"
          /\ rps[i].expire_index = rps[i].block_index + rps[i].expiration
          /\ rps[i].expire_index >= height

-----------------------------------------------------------------------------
(* Release of escrow. *)

\* The offer holds no escrow and is in no unsettled match.
Released(i) ==
    /\ i <= Len(rps)
    /\ \/ rps[i].status \in {"invalid", "expired"}
       \/ /\ rps[i].status = "matched"
          /\ MatchesOf(i) # {}
          /\ \A k \in MatchesOf(i) : rps_matches[k].status \in MatchTerminal

\* C19: every admitted offer's escrow is eventually released. With a pass of
\* expire for every next block, every stored offer is eventually expired, or
\* matched with all its matches settled or expired; from then on it is never
\* reopened.
C19_EscrowReleased ==
    /\ \A i \in 1..MaxOffers : (i <= Len(rps)) ~> Released(i)
    /\ [][\A i \in 1..MaxOffers :
              Released(i) => /\ Released(i)'
                             /\ rps'[i].status = rps[i].status]_vars

\* An offer went through a match that expired, was reopened, matched again, and
\* its second match has expired past the offer's own expire_index: it stays
\* matched, and both wagers are back.
C19_Witness ==
    \E i \in 1..Len(rps) : \E k, l \in MatchesOf(i) :
        /\ k < l
        /\ Released(i)
        /\ rps[i].status = "matched"
        /\ rps_matches[l].status = "expired"
        /\ rps[i].expire_index < height
        /\ ReopenDebit(rps[i], rps_matches[k]) \in debits
        /\ ReopenDebit(rps[i], rps_matches[l]) \notin debits

-----------------------------------------------------------------------------
(* Height boundary. *)

\* C20: nothing stale survives a height boundary. After the expiration pass of
\* block h, and through the admissions and reveals of block h, no offer is open
\* with expire_index < h and no match is unsettled with match_expire_index < h;
\* so every offer that match() finds in block h has expire_index >= h.
C20_NothingStale ==
    /\ \A i \in 1..Len(rps) : rps[i].status = "open" => rps[i].expire_index >= height
    /\ \A k \in 1..Len(rps_matches) :
          rps_matches[k].status \in MatchPending =>
              rps_matches[k].match_expire_index >= height
    /\ \A n \in 1..Len(match_calls) :
          LET c == match_calls[n]
          IN  /\ c.block_index = height
              /\ c.found # 0 => Found(c).expire_index >= c.block_index

\* An admission in the block of an open offer's expire_index is matched with
\* that offer, while an older compatible offer, already expired, is passed by.
C20_Witness ==
    /\ last_call.op = "parse"
    /\ \E n \in 1..Len(match_calls) :
          LET c == match_calls[n]
          IN  /\ c.found # 0
              /\ Found(c).expire_index = height
              /\ \E i \in 1..Len(rps) :
                    /\ rps[i].status = "expired"
                    /\ rps[i].tx_index < c.found
                    /\ rps[i].source # Trigger(c).source
                    /\ rps[i].wager = Trigger(c).wager

====
